---- MODULE Spec2Model ----
(***************************************************************************)
(* The authorizations list page of the identity client, in its two         *)
(* variants: List.tsx keeps the active tab in local state and reconciles   *)
(* it with the URL in effects ("stateful"); the other source file derives  *)
(* the active tab from the URL on every render ("stateless").              *)
(*                                                                         *)
(* One state of the model is the state between two steps of the React      *)
(* event loop: the committed render (activeTab, searchParams, page), the   *)
(* queued state updates (pendingTab, pendingPage), and the browser history *)
(* (hist, idx), whose current entry is the location the router has         *)
(* navigated to. A render pass and the effects it schedules form one       *)
(* step, since React flushes a render's effects before the next render.    *)
(***************************************************************************)
EXTENDS Integers, Sequences, FiniteSets

\* ------------------------------------------------------------------ bounds
MaxHist == 2      \* entries the browser history may hold
MaxEvents == 3    \* tab clicks and external URL changes in one behaviour
MaxPage == 1      \* last page index the pagination may reach
MaxItems == 2     \* authorization records in one data page
MaxPerms == 3     \* permission types in one data page, all records together

\* --------------------------------------------------------------- constants
\* searchParams.get(name) of a parameter the URL does not hold (null).
Missing == "<null>"
\* No state update is queued.
NoUpdate == "<none>"
\* The first page of the pagination (what resetPagination returns to).
FirstPage == 0

\* The members of the ResourceType enumeration, in declaration order
\* (Object.values(ResourceType)).
ResourceType == <<"AUTHORIZATION", "TENANT", "USER">>
TENANT == "TENANT"

\* Values the resourceType query parameter may hold.
ParamValues == {ResourceType[i] : i \in 1..Len(ResourceType)} \cup {Missing, "UNKNOWN"}
\* Values of one other query parameter of the URL.
OtherValues == {Missing, "x"}
Params == [resourceType : ParamValues, other : OtherValues]

Variants == {"stateful", "stateless"}

VARIABLES
    variant,              \* which of the two source files is running
    isTenantsApiEnabled,  \* the configuration flag
    hist, idx,            \* browser history entries and the current one
    searchParams,         \* the URL parameters the last render saw
    activeTab,            \* the active tab of the last render
    pendingTab,           \* queued setActiveTab value, or NoUpdate
    page,                 \* page index of the last render
    pendingPage,          \* queued page updates: {} or {p}
    mounted,              \* the first render's effects have run
    urlWrite,             \* navigation mode of this step's setSearchParams
    resetCalled,          \* this step called resetPagination
    query,                \* the last query handed to the search collaborator:
                          \* {} before the first one, else {[filter, page]}
    events,               \* user events so far (clicks, navigations, paging)
    lastEvent,            \* "mount", "click" or "external"
    target,               \* the tab clicked / the parameter navigated to
    data,                 \* the hook's data: <<>> (absent) or <<page>>
    transformed,          \* the transform has run on data
    transformedData,      \* its result: <<>> (absent) or <<page>>
    loading, success,     \* the hook's fetch state as last rendered
    errorShown,           \* the last render showed the error notification
    reloadCalls,          \* calls of reload made through the notification
    retryClicks           \* clicks on the notification's retry button

vars == <<variant, isTenantsApiEnabled, hist, idx, searchParams, activeTab,
          pendingTab, page, pendingPage, mounted, urlWrite, resetCalled,
          query, events, lastEvent, target, data, transformed,
          transformedData, loading, success, errorShown, reloadCalls,
          retryClicks>>

\* The state of the list page proper / of the presentation transform.
pageVars == <<variant, isTenantsApiEnabled, hist, idx, searchParams, activeTab,
              pendingTab, page, pendingPage, mounted, urlWrite, resetCalled,
              query, events, lastEvent, target>>
dataVars == <<data, transformed, transformedData>>
fetchVars == <<loading, success, errorShown, reloadCalls, retryClicks>>

\* ---------------------------------------------------------- pure functions
Includes(seq, v) == \E i \in 1..Len(seq) : seq[i] = v

\* Array.prototype.indexOf, 0-based, -1 when absent.
IndexOf(seq, v) ==
    IF Includes(seq, v)
    THEN (CHOOSE i \in 1..Len(seq) :
             seq[i] = v /\ \A j \in 1..(i - 1) : seq[j] # v) - 1
    ELSE -1

NotTenant(type) == type # TENANT

\* The tab set without the tenant filter.
authorizationTabs_NoFilter(tenantsEnabled) == ResourceType

authorizationTabs(tenantsEnabled) ==
    IF ~tenantsEnabled
    THEN SelectSeq(ResourceType, NotTenant)
    ELSE ResourceType

Tabs == authorizationTabs(isTenantsApiEnabled)

\* JavaScript truthiness of a string-or-null.
Truthy(v) == v # Missing /\ v # ""

\* The resolution without the membership test against the tab set.
getActiveTabFromUrl_NoCheck(params, tabs) ==
    IF Truthy(params.resourceType) THEN params.resourceType ELSE tabs[1]

getActiveTabFromUrl(params, tabs) ==
    LET resourceTypeFromUrl == params.resourceType
        isValidResourceType ==
            Truthy(resourceTypeFromUrl) /\ Includes(tabs, resourceTypeFromUrl)
    IN  IF isValidResourceType THEN resourceTypeFromUrl ELSE tabs[1]

\* selectedIndex handed to the tab strip.
selectedIndex == IndexOf(Tabs, activeTab)

\* The location the router has navigated to (window.location).
Location == hist[idx]

\* navigate(to, {replace: true}): the current history entry is overwritten.
NavigateReplace(params) == [hist EXCEPT ![idx] = params]
\* navigate(to): the forward entries are dropped and a new entry is appended.
NavigatePush(params) == Append(SubSeq(hist, 1, idx), params)

\* ------------------------------------------------ presentation transform
\* Permission-type labels, listed in the order of JavaScript's default
\* comparison of strings (by UTF-16 code unit).
PermissionType == <<"CREATE", "READ", "WRITE">>

\* The comparison with the operands exchanged: a descending sort.
SortBefore_Descending(a, b) == IndexOf(PermissionType, b) < IndexOf(PermissionType, a)

\* Array.prototype.sort() with no comparator: a is placed before b.
SortBefore(a, b) == IndexOf(PermissionType, a) < IndexOf(PermissionType, b)

RECURSIVE Insert(_, _)
Insert(sorted, x) ==
    IF sorted = <<>> THEN <<x>>
    ELSE IF SortBefore(x, Head(sorted)) THEN <<x>> \o sorted
    ELSE <<Head(sorted)>> \o Insert(Tail(sorted), x)

\* The array after sort(): ascending, equal labels adjacent.
RECURSIVE Sort(_)
Sort(s) ==
    IF s = <<>> THEN <<>>
    ELSE Insert(Sort(SubSeq(s, 1, Len(s) - 1)), s[Len(s)])

\* permissionTypes.sort() on the item's own array: the source array is the
\* sorted one afterwards.
SortInPlace(permissionTypes) ==
    [source |-> Sort(permissionTypes), sorted |-> Sort(permissionTypes)]

\* [...item.permissionTypes].sort(): the copy is sorted, the item's array is
\* left as it was. source is the item's array after the call.
CopyThenSort(permissionTypes) ==
    [source |-> permissionTypes, sorted |-> Sort(permissionTypes)]

\* sortPermissionTypesAlphabetically(authorizationData): result is the value
\* returned, source the argument as it is after the call.
sortPermissionTypesAlphabetically(authorizationData) ==
    IF authorizationData # <<>>
    THEN LET pg == authorizationData[1]
             items == pg.items[1]
             calls == [i \in 1..Len(items) |-> CopyThenSort(items[i].permissionTypes)]
         IN  IF pg.items = <<>>
             THEN [source |-> authorizationData, result |-> <<pg>>]
             ELSE [source |->
                       <<[pg EXCEPT !.items =
                           <<[i \in 1..Len(items) |->
                               [items[i] EXCEPT !.permissionTypes = calls[i].source]]>>]>>,
                   result |->
                       <<[pg EXCEPT !.items =
                           <<[i \in 1..Len(items) |->
                               [items[i] EXCEPT !.permissionTypes = calls[i].sorted]]>>]>>]
    ELSE [source |-> authorizationData, result |-> authorizationData]

\* Bounded inputs of the transform.
SeqsUpTo(S, n) == UNION {[1..k -> S] : k \in 0..n}
PermissionLabels == {PermissionType[i] : i \in 1..Len(PermissionType)}
\* The permission lists of at most k records holding at most n labels in all.
RECURSIVE ListsWithin(_, _)
ListsWithin(k, n) ==
    IF k = 0 THEN {<<>>}
    ELSE {<<>>} \cup
         UNION {{<<l>> \o rest : rest \in ListsWithin(k - 1, n - Len(l))} :
                   l \in SeqsUpTo(PermissionLabels, n)}
PermissionLists == ListsWithin(MaxItems, MaxPerms)
\* Records are told apart by their key: the i-th record of a page has key i.
ItemsOf(lists) ==
    [i \in 1..Len(lists) |-> [authorizationKey |-> i, permissionTypes |-> lists[i]]]
DataPages ==
    {[totalItems |-> Len(lists), items |-> <<ItemsOf(lists)>>] : lists \in PermissionLists}
        \cup {[totalItems |-> 0, items |-> <<>>]}
DataValues == {<<>>} \cup {<<pg>> : pg \in DataPages}

\* ------------------------------------------------- paginated-search hook
\* resetPagination(): the page update it queues (back to the first page).
resetPagination == {FirstPage}

\* usePaginatedApi(searchAuthorization, {filter: {resourceType: tab}}) in a
\* render at page pg: a query is issued when the filter or the page differs
\* from the previous render's; otherwise the last query stands.
usePaginatedApi(tab, pg, changed) ==
    IF changed THEN {[filter |-> tab, page |-> pg]} ELSE query

\* --------------------------------------------------- error notification
\* The condition without the loading test.
ErrorNotificationShown_NotSuccess(isLoading, isSuccess) == ~isSuccess

\* {!loading && !success && <TranslatedErrorInlineNotification .../>}
ErrorNotificationShown(isLoading, isSuccess) == ~isLoading /\ ~isSuccess

\* A retry button that calls reload twice.
RetryOnClick_Twice(calls) == calls + 2

\* actionButton onClick: reload. The reload calls made after one more click.
RetryOnClick(calls) == calls + 1

\* The hook starts a fetch when it issues a query (started); the page is
\* rendered with the fetch state. No effect of the page calls reload.
HookFetch(started) ==
    /\ loading' = (started \/ loading)
    /\ success' = success
    /\ errorShown' = ErrorNotificationShown(loading', success')
    /\ UNCHANGED <<reloadCalls, retryClicks>>

\* --------------------------------------------------------------- effects
\* A URL -> activeTab effect without its comparison.
SyncTabWrites_Always(params, tab, tabs) == TRUE

\* List.tsx, URL -> activeTab effect: the guard of setActiveTab.
SyncTabWrites(params, tab, tabs) == getActiveTabFromUrl(params, tabs) # tab

\* The URL effect without its comparison of URL and active tab.
StatefulUrlWrites_Always(params, tab) == TRUE

\* List.tsx, activeTab -> URL effect: the guard of setSearchParams.
StatefulUrlWrites(params, tab) == params.resourceType # tab

\* List.tsx: new URLSearchParams(searchParams) with resourceType set.
StatefulUrlParams(params, tab) == [params EXCEPT !.resourceType = tab]

\* A URL effect that never writes.
StatelessUrlWrites_Never(params, tab) == FALSE

\* Stateless variant, URL effect: the guard of setSearchParams.
StatelessUrlWrites(params, tab) == params.resourceType # tab

\* Stateless variant: setSearchParams({resourceType: tab}).
StatelessUrlParams(tab) == [resourceType |-> tab, other |-> Missing]

\* The effects of one render of List.tsx. tab, params, pg are the values the
\* render saw; tabChanged, paramsChanged, pageChanged say which dependencies
\* differ from the previous render (all TRUE on mount).
StatefulEffects(tab, params, pg, tabChanged, paramsChanged, pageChanged) ==
    LET tabFromUrl == getActiveTabFromUrl(params, Tabs)
        syncTab == (tabChanged \/ paramsChanged) /\ SyncTabWrites(params, tab, Tabs)
        syncUrl == (tabChanged \/ paramsChanged) /\ StatefulUrlWrites(params, tab)
    IN  /\ pendingTab' = IF syncTab THEN tabFromUrl ELSE NoUpdate
        /\ query' = usePaginatedApi(tab, pg, tabChanged \/ pageChanged)
        /\ hist' = IF syncUrl
                   THEN NavigateReplace(StatefulUrlParams(params, tab)) ELSE hist
        /\ urlWrite' = IF syncUrl THEN "replace" ELSE "none"
        /\ resetCalled' = tabChanged
        /\ pendingPage' = IF tabChanged THEN resetPagination ELSE {}
        /\ UNCHANGED idx

\* The effects of one render of the stateless variant.
StatelessEffects(tab, params, pg, tabChanged, paramsChanged, pageChanged) ==
    LET syncUrl == (tabChanged \/ paramsChanged) /\ StatelessUrlWrites(params, tab)
    IN  /\ pendingTab' = NoUpdate
        /\ query' = usePaginatedApi(tab, pg, tabChanged \/ pageChanged)
        /\ hist' = IF syncUrl
                   THEN NavigateReplace(StatelessUrlParams(tab)) ELSE hist
        /\ urlWrite' = IF syncUrl THEN "replace" ELSE "none"
        /\ resetCalled' = FALSE
        /\ pendingPage' = {}
        /\ UNCHANGED idx

Effects(tab, params, pg, tabChanged, paramsChanged, pageChanged) ==
    /\ IF variant = "stateful"
       THEN StatefulEffects(tab, params, pg, tabChanged, paramsChanged, pageChanged)
       ELSE StatelessEffects(tab, params, pg, tabChanged, paramsChanged, pageChanged)
    /\ HookFetch(tabChanged \/ pageChanged)

\* ------------------------------------------------------------------ Init
Init ==
    /\ variant \in Variants
    /\ isTenantsApiEnabled \in BOOLEAN
    /\ \E p \in Params :
          /\ hist = <<p>>
          /\ searchParams = p
          /\ target = p.resourceType
    /\ idx = 1
    /\ activeTab = getActiveTabFromUrl(searchParams, Tabs)
    /\ pendingTab = NoUpdate
    /\ page = FirstPage
    /\ pendingPage = {}
    /\ mounted = FALSE
    /\ urlWrite = "none"
    /\ resetCalled = FALSE
    /\ query = {}
    /\ events = 0
    /\ lastEvent = "mount"
    /\ data = <<>>
    /\ transformed = FALSE
    /\ transformedData = <<>>
    /\ loading \in BOOLEAN
    /\ success \in BOOLEAN
    /\ errorShown = ErrorNotificationShown(loading, success)
    /\ reloadCalls = 0
    /\ retryClicks = 0

\* --------------------------------------------------------------- actions
\* A state update is queued / the router holds a location not yet rendered.
StatePending == pendingTab # NoUpdate \/ pendingPage # {}
UrlPending == searchParams # Location

\* No update is queued and the last render saw the current location. User
\* events are taken in settled states: React renders the updates of one
\* event before it handles the next.
Settled == mounted /\ ~StatePending /\ ~UrlPending

\* The effects of the first render.
MountEffects ==
    /\ UNCHANGED dataVars
    /\ ~mounted
    /\ mounted' = TRUE
    /\ Effects(activeTab, searchParams, page, TRUE, TRUE, TRUE)
    /\ UNCHANGED <<variant, isTenantsApiEnabled, searchParams, activeTab, page,
                   events, lastEvent, target>>

\* One render pass and its effects. Queued state updates are always applied;
\* a navigation the router has not yet published may be applied in the same
\* pass (applyUrl) or left for a later one.
Render ==
    /\ UNCHANGED dataVars
    /\ mounted
    /\ \E applyUrl \in BOOLEAN :
          /\ applyUrl => UrlPending
          /\ ~applyUrl => StatePending
          /\ LET newParams == IF applyUrl THEN Location ELSE searchParams
                 newTab == IF variant = "stateful"
                           THEN (IF pendingTab # NoUpdate THEN pendingTab ELSE activeTab)
                           ELSE getActiveTabFromUrl(newParams, Tabs)
                 newPage == IF pendingPage # {}
                            THEN CHOOSE p \in pendingPage : TRUE ELSE page
                 \* List.tsx depends on the searchParams object, the
                 \* stateless variant on resourceTypeFromUrl alone.
                 urlDepChanged ==
                     IF variant = "stateful"
                     THEN newParams # searchParams
                     ELSE newParams.resourceType # searchParams.resourceType
             IN  /\ searchParams' = newParams
                 /\ activeTab' = newTab
                 /\ page' = newPage
                 /\ Effects(newTab, newParams, newPage, newTab # activeTab,
                            urlDepChanged, newPage # page)
    /\ UNCHANGED <<variant, isTenantsApiEnabled, mounted, events, lastEvent, target>>

\* The user selects the tab at index i of the tab strip.
handleTabChange(i) ==
    /\ UNCHANGED <<dataVars, fetchVars>>
    /\ Settled
    /\ events < MaxEvents
    /\ LET newTab == Tabs[i + 1]
       IN  /\ IF variant = "stateful"
              THEN /\ pendingTab' = newTab
                   /\ urlWrite' = "none"
                   /\ resetCalled' = FALSE
                   /\ UNCHANGED <<hist, idx, pendingPage>>
              ELSE /\ idx < MaxHist
                   /\ resetCalled' = TRUE
                   /\ pendingPage' = resetPagination
                   /\ hist' = NavigatePush(StatelessUrlParams(newTab))
                   /\ idx' = idx + 1
                   /\ urlWrite' = "push"
                   /\ UNCHANGED pendingTab
           /\ target' = newTab
    /\ events' = events + 1
    /\ lastEvent' = "click"
    /\ UNCHANGED <<variant, isTenantsApiEnabled, searchParams, activeTab, page,
                   mounted, query>>

\* Browser back.
ExternalBack ==
    /\ UNCHANGED <<dataVars, fetchVars>>
    /\ Settled
    /\ events < MaxEvents
    /\ idx > 1
    /\ idx' = idx - 1
    /\ target' = hist[idx - 1].resourceType
    /\ events' = events + 1
    /\ lastEvent' = "external"
    /\ urlWrite' = "none"
    /\ resetCalled' = FALSE
    /\ UNCHANGED <<variant, isTenantsApiEnabled, hist, searchParams, activeTab,
                   pendingTab, page, pendingPage, mounted, query>>

\* Browser forward.
ExternalForward ==
    /\ UNCHANGED <<dataVars, fetchVars>>
    /\ Settled
    /\ events < MaxEvents
    /\ idx < Len(hist)
    /\ idx' = idx + 1
    /\ target' = hist[idx + 1].resourceType
    /\ events' = events + 1
    /\ lastEvent' = "external"
    /\ urlWrite' = "none"
    /\ resetCalled' = FALSE
    /\ UNCHANGED <<variant, isTenantsApiEnabled, hist, searchParams, activeTab,
                   pendingTab, page, pendingPage, mounted, query>>

\* A navigation from outside the component (a link, an edited URL) to p.
ExternalNavigate(p) ==
    /\ UNCHANGED <<dataVars, fetchVars>>
    /\ Settled
    /\ events < MaxEvents
    /\ idx < MaxHist
    /\ p # Location
    /\ hist' = NavigatePush(p)
    /\ idx' = idx + 1
    /\ target' = p.resourceType
    /\ events' = events + 1
    /\ lastEvent' = "external"
    /\ urlWrite' = "none"
    /\ resetCalled' = FALSE
    /\ UNCHANGED <<variant, isTenantsApiEnabled, searchParams, activeTab,
                   pendingTab, page, pendingPage, mounted, query>>

\* The user moves to page p with the pagination controls.
SetPage(p) ==
    /\ UNCHANGED <<dataVars, fetchVars>>
    /\ Settled
    /\ events < MaxEvents
    /\ p # page
    /\ pendingPage' = {p}
    /\ events' = events + 1
    /\ urlWrite' = "none"
    /\ resetCalled' = FALSE
    /\ UNCHANGED <<variant, isTenantsApiEnabled, hist, idx, searchParams,
                   activeTab, pendingTab, page, mounted, query, lastEvent, target>>

\* The fetch in flight resolves, with or without success, and the page is
\* rendered with the result.
FetchResolve(ok) ==
    /\ mounted
    /\ loading
    /\ loading' = FALSE
    /\ success' = ok
    /\ errorShown' = ErrorNotificationShown(loading', success')
    /\ urlWrite' = "none"
    /\ resetCalled' = FALSE
    /\ UNCHANGED <<variant, isTenantsApiEnabled, hist, idx, searchParams,
                   activeTab, pendingTab, page, pendingPage, mounted, query,
                   events, lastEvent, target, reloadCalls, retryClicks, dataVars>>

\* The user clicks the retry button of the error notification.
RetryClick ==
    /\ Settled
    /\ events < MaxEvents
    /\ errorShown
    /\ retryClicks' = retryClicks + 1
    /\ reloadCalls' = RetryOnClick(reloadCalls)
    /\ loading' = TRUE
    /\ success' = success
    /\ errorShown' = ErrorNotificationShown(loading', success')
    /\ events' = events + 1
    /\ urlWrite' = "none"
    /\ resetCalled' = FALSE
    /\ UNCHANGED <<variant, isTenantsApiEnabled, hist, idx, searchParams,
                   activeTab, pendingTab, page, pendingPage, mounted, query,
                   lastEvent, target, dataVars>>

Next ==
    \/ MountEffects
    \/ Render
    \/ \E i \in 0..(Len(Tabs) - 1) : handleTabChange(i)
    \/ ExternalBack
    \/ ExternalForward
    \/ \E p \in Params : ExternalNavigate(p)
    \/ \E p \in FirstPage..MaxPage : SetPage(p)
    \/ \E ok \in BOOLEAN : FetchResolve(ok)
    \/ RetryClick

Spec == Init /\ [][Next]_vars

\* ------------------------------------------- the transform on its own
\* The page mounted on the first tab and at rest, with any data page in the
\* hook; useMemo then runs the transform on it.
SortInit ==
    /\ variant = "stateful"
    /\ isTenantsApiEnabled = TRUE
    /\ hist = <<[resourceType |-> ResourceType[1], other |-> Missing]>>
    /\ idx = 1
    /\ searchParams = hist[1]
    /\ target = ResourceType[1]
    /\ activeTab = ResourceType[1]
    /\ pendingTab = NoUpdate
    /\ page = FirstPage
    /\ pendingPage = {}
    /\ mounted = TRUE
    /\ urlWrite = "none"
    /\ resetCalled = FALSE
    /\ query = {[filter |-> ResourceType[1], page |-> FirstPage]}
    /\ events = 0
    /\ lastEvent = "mount"
    /\ data \in DataValues
    /\ transformed = FALSE
    /\ transformedData = <<>>
    /\ loading = FALSE
    /\ success = TRUE
    /\ errorShown = FALSE
    /\ reloadCalls = 0
    /\ retryClicks = 0

\* useMemo(() => sortPermissionTypesAlphabetically(data), [data, ...]).
Transform ==
    /\ ~transformed
    /\ LET call == sortPermissionTypesAlphabetically(data)
       IN  /\ data' = call.source
           /\ transformedData' = call.result
    /\ transformed' = TRUE
    /\ UNCHANGED <<pageVars, fetchVars>>

SortNext == Transform

SortSpec == SortInit /\ [][SortNext]_vars

\* Renders are scheduled by React whenever an update is queued; user events
\* carry no fairness.
FairSpec == Spec /\ WF_vars(MountEffects) /\ WF_vars(Render)

TypeOK ==
    /\ variant \in Variants
    /\ isTenantsApiEnabled \in BOOLEAN
    /\ hist \in Seq(Params) /\ Len(hist) \in 1..MaxHist
    /\ idx \in 1..Len(hist)
    /\ searchParams \in Params
    /\ pendingTab \in ParamValues \cup {NoUpdate}
    /\ page \in FirstPage..MaxPage
    /\ pendingPage \subseteq FirstPage..MaxPage
    /\ mounted \in BOOLEAN
    /\ urlWrite \in {"none", "replace", "push"}
    /\ resetCalled \in BOOLEAN
    /\ events \in 0..MaxEvents
    /\ lastEvent \in {"mount", "click", "external"}
    /\ target \in ParamValues
    /\ loading \in BOOLEAN
    /\ success \in BOOLEAN
    /\ errorShown \in BOOLEAN
    /\ reloadCalls \in 0..MaxEvents
    /\ retryClicks \in 0..MaxEvents

\* ------------------------------------------------------------------ claims
IsTab(v) == Includes(Tabs, v)

\* C1: in the stateful variant (List.tsx) the chain of renders and effects
\* that follows a tab click or an external URL change terminates: once the
\* user events have stopped, a state is reached from which no effect issues a
\* further setActiveTab or setSearchParams.
C1_StatefulTerminates == (variant = "stateful") => <>[]Settled

\* C2: a tab selected through the tab strip becomes the active tab and the
\* resourceType parameter, and the component settles there; the click is not
\* reverted. Both variants.
C2_ClickSettlesOnTab ==
    <>[](lastEvent = "click" =>
            Settled /\ activeTab = target /\ Location.resourceType = target)

\* C3: after an external change of the resourceType parameter to a valid tab
\* X, the parameter stays X (the component never overwrites it) and the
\* active tab eventually is X.
C3_ExternalUrlWins ==
    /\ [](lastEvent = "external" /\ IsTab(target) => Location.resourceType = target)
    /\ <>[](lastEvent = "external" /\ IsTab(target) =>
               Settled /\ activeTab = target)

\* C4: in every reachable state the active tab is a member of the computed
\* tab set, so the selectedIndex handed to the tab strip is in
\* 0..len(tabs)-1. Both variants.
C4_ActiveTabInTabSet ==
    /\ IsTab(activeTab)
    /\ selectedIndex \in 0..(Len(Tabs) - 1)

\* C4 witness: after a click and external navigations, a render has seen the
\* excluded tenant type in the URL and fell back to the first tab.
C4_Witness ==
    /\ mounted /\ events >= 2
    /\ ~isTenantsApiEnabled
    /\ lastEvent = "external" /\ target = TENANT
    /\ searchParams.resourceType = TENANT
    /\ activeTab = Tabs[1]

\* C5: when the resourceType parameter is missing, unknown or the excluded
\* tenant type, the active tab resolves to the first tab, the parameter is
\* rewritten to the first tab, and the component is settled from then on.
C5_InvalidUrlNormalized ==
    <>[](lastEvent \in {"mount", "external"} /\ ~IsTab(target) =>
            Settled /\ activeTab = Tabs[1] /\ Location.resourceType = Tabs[1])

\* C6: every write of the resourceType parameter by the component uses
\* replace navigation, so its own writes never grow the browser history.
C6_WritesReplace ==
    [][urlWrite' # "none" =>
          (urlWrite' = "replace" /\ Len(hist') = Len(hist))]_vars

\* C7: whenever the active tab changes to a different value, for any cause,
\* resetPagination is invoked as part of handling the change: the page is the
\* first page, or the reset to it is queued. Both variants.
C7_ResetOnTabChange ==
    [][activeTab' # activeTab =>
          (page' = FirstPage \/ pendingPage' = {FirstPage})]_vars

\* C8: the first query for a newly active tab is never issued with the page
\* position left over from the previous tab: the render that changes the
\* active tab queries the first page.
C8_NoStalePageQuery ==
    [][(activeTab' # activeTab /\ lastEvent' = "click") =>
          query' = {[filter |-> activeTab', page |-> FirstPage]}]_vars

\* C9: mounted with a valid resourceType V, the active tab is V from the
\* first render on and the component performs no URL write until a tab click
\* or an external URL change occurs.
C9_ValidMountNoRewrite ==
    (lastEvent = "mount" /\ IsTab(target)) =>
        /\ activeTab = target
        /\ urlWrite = "none"
        /\ Location.resourceType = target
        /\ Len(hist) = 1

\* C9 witness: mounted on the last tab, the mount effects and the render
\* they schedule have run, and the user has paged.
C9_Witness ==
    /\ Settled /\ lastEvent = "mount"
    /\ target = Tabs[Len(Tabs)] /\ activeTab = target
    /\ events > 0

\* C10: for both values of the flag the tab set holds every enumeration
\* member other than tenant exactly once, in enumeration order, and holds
\* tenant (exactly once) iff the flag is enabled.
C10_TabSet ==
    LET Count(v) == Cardinality({j \in 1..Len(Tabs) : Tabs[j] = v})
    IN  /\ \A i \in 1..Len(ResourceType) :
              ResourceType[i] # TENANT => Count(ResourceType[i]) = 1
        /\ Count(TENANT) = IF isTenantsApiEnabled THEN 1 ELSE 0
        /\ \A j \in 1..Len(Tabs) : Includes(ResourceType, Tabs[j])
        /\ \A j, k \in 1..Len(Tabs) :
              j < k => IndexOf(ResourceType, Tabs[j]) < IndexOf(ResourceType, Tabs[k])

\* C10 witness: the flag is off and the rendered tab strip lacks tenant.
C10_Witness ==
    /\ mounted /\ ~isTenantsApiEnabled
    /\ Len(Tabs) = Len(ResourceType) - 1
    /\ ~Includes(Tabs, TENANT)

\* The rank of a label in the order of string comparison.
LabelRank(l) == IndexOf(PermissionType, l)
IsAscending(s) == \A i \in 1..(Len(s) - 1) : LabelRank(s[i]) <= LabelRank(s[i + 1])
CountIn(s, l) == Cardinality({i \in 1..Len(s) : s[i] = l})
SameLabels(s, t) ==
    Len(s) = Len(t) /\ \A l \in PermissionLabels : CountIn(s, l) = CountIn(t, l)

\* C11: for a present data page the transform returns a page with the same
\* records in the same order, their other fields unchanged, and each
\* record's permissionTypes an ascending permutation of the input's; and
\* applying the transform to its own result changes nothing.
C11_SortedPermutation ==
    (transformed /\ data # <<>>) =>
        /\ transformedData # <<>>
        /\ transformedData[1].totalItems = data[1].totalItems
        /\ data[1].items # <<>> =>
              /\ transformedData[1].items # <<>>
              /\ LET src == data[1].items[1]
                     out == transformedData[1].items[1]
                 IN  /\ Len(out) = Len(src)
                     /\ \A i \in 1..Len(src) :
                           /\ out[i].authorizationKey = src[i].authorizationKey
                           /\ IsAscending(out[i].permissionTypes)
                           /\ SameLabels(out[i].permissionTypes, src[i].permissionTypes)
        /\ sortPermissionTypesAlphabetically(transformedData).result = transformedData

\* C11 witness: the record [WRITE, READ, CREATE] came out [CREATE, READ, WRITE].
C11_Witness ==
    /\ transformed /\ data # <<>> /\ data[1].items # <<>>
    /\ Len(data[1].items[1]) = 1
    /\ data[1].items[1][1].permissionTypes = <<"WRITE", "READ", "CREATE">>
    /\ transformedData[1].items[1][1].permissionTypes = <<"CREATE", "READ", "WRITE">>

\* C12: the transform leaves its argument as it was (the page and every
\* record's permissionTypes, in their order); absent data gives an absent
\* result, absent items give absent items.
C12_InputUnchanged ==
    [][(~transformed /\ transformed') =>
          /\ data' = data
          /\ data = <<>> => transformedData' = <<>>
          /\ (data # <<>> /\ data[1].items = <<>>) =>
                (transformedData' # <<>> /\ transformedData'[1].items = <<>>)]_vars

\* C12 witness: after the transform the source page still holds a second
\* record with its labels out of order, and the result holds them in order.
C12_Witness ==
    /\ transformed /\ data # <<>> /\ data[1].items # <<>>
    /\ Len(data[1].items[1]) = 2
    /\ data[1].items[1][2].permissionTypes = <<"READ", "CREATE">>
    /\ transformedData[1].items[1][2].permissionTypes = <<"CREATE", "READ">>

\* C13: in every render the error notification is shown exactly when the
\* fetch is neither loading nor successful; it is never shown while a fetch
\* is in flight and never after a successful one.
C13_ErrorShownIffFailed == errorShown <=> (~loading /\ ~success)

\* A failed fetch has been retried and is in flight again: the notification
\* that was shown is hidden although success is still false.
C13_Witness ==
    /\ mounted
    /\ retryClicks > 0
    /\ loading
    /\ ~success
    /\ ~errorShown

\* C14: reload is called only through the notification's retry button, once
\* per click: the page makes no reload call of its own on mount, on a tab
\* change or after a failed fetch.
C14_ReloadOnlyOnRetry == reloadCalls = retryClicks

\* Two retries: the first retried fetch failed again and nothing was
\* reloaded until the second click.
C14_Witness ==
    /\ retryClicks = 2
    /\ reloadCalls = 2
    /\ loading

\* C15: in every settled state of either variant the resourceType parameter
\* of the URL, the active tab and the filter of the list query are the same
\* value, and that value is one of the tabs.
C15_SettledConsistent ==
    Settled =>
        /\ Location.resourceType = activeTab
        /\ IsTab(activeTab)
        /\ query # {}
        /\ \A q \in query : q.filter = activeTab

\* Settled on a clicked tab other than the default one.
C15_Witness ==
    /\ Settled
    /\ lastEvent = "click"
    /\ activeTab = target
    /\ activeTab # Tabs[1]
    /\ Location.resourceType = activeTab
    /\ query = {[filter |-> activeTab, page |-> page]}

\* C16: the two variants are equivalent on selection. The stateless variant
\* derives the active tab from the URL, so after the last click or URL change
\* it rests on the tab derived from the requested value; the variants are
\* equivalent when every behaviour of either one settles with that tab as
\* active tab and as resourceType parameter.
C16_VariantsSettleAlike ==
    LET requested == getActiveTabFromUrl([resourceType |-> target, other |-> Missing], Tabs)
    IN  <>[](/\ Settled
             /\ activeTab = requested
             /\ Location.resourceType = requested)

\* C17: the synchronization effects write only on drift. In the effects of
\* a render setSearchParams is called only when the rendered resourceType
\* parameter differs from the rendered active tab, setActiveTab only in
\* List.tsx and only when the tab derived from the rendered URL differs from
\* the active tab, and a render with parameter and active tab equal writes
\* nothing.
C17_WritesOnlyOnDrift ==
    [][(Render \/ MountEffects) =>
        /\ urlWrite' = "replace" => searchParams'.resourceType # activeTab'
        /\ urlWrite' # "push"
        /\ pendingTab' # NoUpdate =>
              /\ variant = "stateful"
              /\ getActiveTabFromUrl(searchParams', Tabs) # activeTab'
        /\ searchParams'.resourceType = activeTab' =>
              urlWrite' = "none" /\ pendingTab' = NoUpdate]_vars

\* The render after a click in List.tsx: the URL still has the old tab, and
\* both effects write.
C17_Witness ==
    /\ variant = "stateful"
    /\ lastEvent = "click"
    /\ urlWrite = "replace"
    /\ pendingTab # NoUpdate
    /\ searchParams.resourceType # activeTab

\* C18: every URL write of the component (the URL effect and the click
\* handler, both variants) changes only resourceType: the other query
\* parameters of the location are the same after the write as before it.
C18_WritesKeepOtherParams ==
    [][urlWrite' # "none" => hist'[idx'].other = hist[idx].other]_vars

====
